---- MODULE Spec2Model ----
(***************************************************************************)
(* Model of src/olx_scrapper.py: the pagination loop of scrape, the        *)
(* listing extraction of extract_listings, fetch_page, save_csv and the    *)
(* __main__ block.                                                         *)
(*                                                                         *)
(* A string is a sequence of tokens.  In a text (a title, a context, a     *)
(* price) every token is one character: an ASCII character stands for      *)
(* itself, "Rs" is the rupee sign U+20B9, "bullet" is U+2022, "TAB" is the *)
(* tab character and "U+hhhh" is the character with that code point.  In   *)
(* an href or url a token is one of the delimiter characters of UrlDelims  *)
(* or a chunk of UrlChunks, a run of other characters taken as one piece.  *)
(* Chunks side by side spell the run of their characters, and no run is    *)
(* spelled by two sequences of chunks, so two token sequences are equal    *)
(* exactly when the strings are; the segment ".." is the chunk "." twice.  *)
(*                                                                         *)
(* A page body is what BeautifulSoup hands to the code: the <a> elements   *)
(* of the document in document order.  Each stands for one block           *)
(*   <div><div><div> before <a href=.. data-aut-id=..> own </a> after      *)
(*   </div></div></div>                                                    *)
(* so that the ancestor reached by the three-level walk of lines 57-63 is  *)
(* the block of that anchor alone.                                         *)
(***************************************************************************)
EXTENDS Naturals, Sequences, FiniteSets

VARIABLES
    max_pages,   \* the argument of scrape
    page_num,    \* the loop variable of line 101 (0 before the first iteration)
    pc,          \* "loop", "fetch", "extract", "filter", "sleep", "save", "done", "crashed"
    html,        \* what fetch_page returned for the current page
    rows,        \* what extract_listings returned for the current page
    all_rows,    \* scrape's accumulated list
    seen_urls,   \* scrape's set of accumulated urls
    file,        \* the output file
    writes,      \* how many times the output file was opened for writing
    events,      \* what was printed and which calls were made, in order
    page_urls    \* history: the urls of the listings of every page extracted

vars == <<max_pages, page_num, pc, html, rows, all_rows, seen_urls,
          file, writes, events, page_urls>>

(***************************************************************************)
(* Bounds of the model.                                                    *)
(***************************************************************************)
\* largest max_pages argument tried
MaxPages == 3
\* largest number of <a> elements in a generated page body
MaxAnchors == 2
\* longest text after the anchor tried by the text-driven specification
MaxTextLen == 4
\* the same, for an anchor that holds the rupee sign
MaxTextLenAfterSign == 3

(***************************************************************************)
(* Python values.                                                          *)
(***************************************************************************)
NoneText == [some |-> FALSE, v |-> <<>>]
SomeText(t) == [some |-> TRUE, v |-> t]

\* a.get("href"): the attribute value as written, or None
Href(raw) == [present |-> TRUE, raw |-> raw]
NoHref == [present |-> FALSE, raw |-> <<>>]
\* href=""
EmptyHref == Href(<<>>)

\* `not href` of line 41
NotHref(h) == (~h.present) \/ h.raw = <<>>

(***************************************************************************)
(* Sequence helpers for str.find, str.split, str.join and str.lstrip.      *)
(***************************************************************************)
\* the first position of s, from position from on, that holds a token of
\* set; Len(s) + 1 when there is none
RECURSIVE FindFrom(_, _, _)
FindFrom(s, set, from) ==
    IF from > Len(s) THEN Len(s) + 1
    ELSE IF s[from] \in set THEN from
    ELSE FindFrom(s, set, from + 1)

\* s.split(d): the pieces of s between the tokens d
RECURSIVE Split(_, _)
Split(s, d) ==
    LET i == FindFrom(s, {d}, 1) IN
    IF i > Len(s) THEN <<s>>
    ELSE <<SubSeq(s, 1, i - 1)>> \o Split(SubSeq(s, i + 1, Len(s)), d)

\* d.join(parts)
RECURSIVE Join(_, _)
Join(parts, d) ==
    IF parts = <<>> THEN <<>>
    ELSE IF Len(parts) = 1 THEN parts[1]
    ELSE parts[1] \o <<d>> \o Join(Tail(parts), d)

RECURSIVE DropWhile(_, _)
DropWhile(s, set) ==
    IF s # <<>> /\ Head(s) \in set THEN DropWhile(Tail(s), set) ELSE s

RECURSIVE Without(_, _)
Without(s, set) ==
    IF s = <<>> THEN <<>>
    ELSE IF Head(s) \in set THEN Without(Tail(s), set)
    ELSE <<Head(s)>> \o Without(Tail(s), set)

(***************************************************************************)
(* The tokens of hrefs and urls.                                           *)
(***************************************************************************)
UrlDelims == {"/", "?", "#", ":", "[", "]", " ", "TAB"}

UrlChunks ==
    {".", "item", "help", "x", "a", "b", "1", "2", "3", "9",
     "s01", "s02", "s03", "s04", "s05", "s06", "s07", "s08", "s09", "s10", "s11", "s12", "s13",
     "https", "HTTPS", "javascript", "void(0)", "www.olx.in", "next="}

\* the chunks made of scheme_chars only (letters, digits, "+", "-", ".")
SchemeChunks == UrlChunks \ {"void(0)", "next="}
\* the chunks whose first character is an ASCII letter
AlphaFirstChunks == UrlChunks \ {".", "1", "2", "3", "9"}
\* the chunks that are one hexadecimal group of an IPv6 address
HexChunks == {"a", "b", "1", "2", "3", "9"}
\* the chunks that are one decimal digit
DecChunks == {"1", "2", "3", "9"}
\* the chunks with a "." in them
DotChunks == {".", "www.olx.in"}
\* str.lower of a chunk
LowerChunk(c) == IF c = "HTTPS" THEN "https" ELSE c

(***************************************************************************)
(* urllib.parse.urlsplit, as urljoin of line 44 calls it.                  *)
(***************************************************************************)
\* url.lstrip(C0 controls and blank), then the removal of tab, CR and LF
UrlCleaned(url) == Without(DropWhile(url, {" ", "TAB"}), {"TAB"})

\* the position of the ":" that ends the scheme of a cleaned url, 0 when
\* the url has no scheme
SchemeEnd(u) ==
    LET i == FindFrom(u, {":"}, 1) IN
    IF /\ i <= Len(u)
       /\ i > 1
       /\ u[1] \in AlphaFirstChunks
       /\ \A k \in 1..(i - 1) : u[k] \in SchemeChunks
    THEN i ELSE 0

\* the scheme of a cleaned url, in lower case
SchemeOf(u, default_scheme) ==
    IF SchemeEnd(u) > 0 THEN [k \in 1..(SchemeEnd(u) - 1) |-> LowerChunk(u[k])]
    ELSE default_scheme
\* what follows the scheme and its ":"
AfterScheme(u) == SubSeq(u, SchemeEnd(u) + 1, Len(u))

\* the netloc: what follows a leading "//", up to the next "/", "?" or "#"
HasNetloc(u) == Len(u) >= 2 /\ u[1] = "/" /\ u[2] = "/"
NetlocOf(u) ==
    IF HasNetloc(u) THEN SubSeq(u, 3, FindFrom(u, {"/", "?", "#"}, 3) - 1) ELSE <<>>
AfterNetloc(u) ==
    IF HasNetloc(u) THEN SubSeq(u, FindFrom(u, {"/", "?", "#"}, 3), Len(u)) ELSE u

\* the fragment is cut at the first "#", then the query at the first "?"
BeforeToken(u, d) == SubSeq(u, 1, FindFrom(u, {d}, 1) - 1)
AfterToken(u, d) == SubSeq(u, FindFrom(u, {d}, 1) + 1, Len(u))

SplitResult(scheme, netloc, rest, fragment) ==
    [scheme |-> scheme, netloc |-> netloc, path |-> BeforeToken(rest, "?"),
     query |-> AfterToken(rest, "?"), fragment |-> fragment]

SplitAfterNetloc(scheme, netloc, u) ==
    SplitResult(scheme, netloc, BeforeToken(u, "#"), AfterToken(u, "#"))

SplitAfterScheme(scheme, u) == SplitAfterNetloc(scheme, NetlocOf(u), AfterNetloc(u))

SplitCleaned(u, default_scheme) == SplitAfterScheme(SchemeOf(u, default_scheme), AfterScheme(u))

UrlSplit(url, default_scheme) == SplitCleaned(UrlCleaned(url), default_scheme)

\* ipaddress.IPv6Address accepts the parts of the host between its ":":
\* groups of hexadecimal digits, eight of them or fewer around one "::"
IsIPv6Parts(parts) ==
    LET n == Len(parts)
        skips == {i \in 2..(n - 1) : parts[i] = <<>>}
        IsGroup(p) == Len(p) \in 1..4 /\ \A k \in 1..Len(p) : p[k] \in HexChunks
    IN /\ n >= 3
       /\ n <= 9
       /\ Cardinality(skips) <= 1
       /\ IF skips # {}
          THEN LET s == CHOOSE i \in skips : TRUE
                   hi == IF parts[1] = <<>> THEN s - 2 ELSE s - 1
                   lo == IF parts[n] = <<>> THEN n - s - 1 ELSE n - s
               IN /\ (parts[1] = <<>> => hi = 0)
                  /\ (parts[n] = <<>> => lo = 0)
                  /\ hi + lo <= 7
                  /\ \A i \in 1..n : (i # s /\ parts[i] # <<>>) => IsGroup(parts[i])
          ELSE /\ n = 8
               /\ \A i \in 1..n : IsGroup(parts[i])

\* a decimal number from 0 to 255 without a leading zero (no chunk is "0")
IsOctet(p) ==
    /\ Len(p) \in 1..3
    /\ \A k \in 1..Len(p) : p[k] \in DecChunks
    /\ Len(p) = 3 => (p[1] = "1" \/ (p[1] = "2" /\ p[2] \in {"1", "2", "3"}))

\* ipaddress.IPv4Address accepts the part: four octets separated by "."
IsIPv4Octets(octets) == Len(octets) = 4 /\ \A k \in 1..4 : IsOctet(octets[k])

\* "." occurs in the part
HasDot(p) == \E k \in 1..Len(p) : p[k] \in DotChunks

\* a last part with a "." has to be an IPv4 address and counts as two groups
IsIPv6Split(parts) ==
    /\ Len(parts) >= 3
    /\ IF HasDot(parts[Len(parts)])
       THEN /\ IsIPv4Octets(Split(parts[Len(parts)], "."))
            /\ IsIPv6Parts(SubSeq(parts, 1, Len(parts) - 1) \o <<<<"1">>, <<"1">>>>)
       ELSE IsIPv6Parts(parts)

IsIPv6(host) == IsIPv6Split(Split(host, ":"))

\* urlsplit rejects the netloc: one kind of bracket only, or a bracketed
\* host that is no IPv6 address (no chunk of UrlChunks makes an IPvFuture
\* address)
BadNetloc(netloc) ==
    LET open == \E k \in 1..Len(netloc) : netloc[k] = "["
        close == \E k \in 1..Len(netloc) : netloc[k] = "]"
        o == FindFrom(netloc, {"["}, 1)
    IN \/ (open /\ ~close)
       \/ (close /\ ~open)
       \/ (open /\ close /\ ~IsIPv6(SubSeq(netloc, o + 1, FindFrom(netloc, {"]"}, o + 1) - 1)))

\* urlsplit raises ValueError and urljoin lets it through
UrlJoinRaises(h) == BadNetloc(UrlSplit(h.raw, <<"https">>).netloc)

(***************************************************************************)
(* urljoin("https://www.olx.in", href), line 44.                           *)
(***************************************************************************)
BaseScheme == <<"https">>
BaseNetloc == <<"www.olx.in">>

\* urlunsplit for a scheme of uses_netloc
Rooted(path) == IF path # <<>> /\ path[1] # "/" THEN <<"/">> \o path ELSE path

UrlUnsplit(scheme, netloc, path, query, fragment) ==
    scheme \o <<":", "/", "/">> \o netloc \o Rooted(path)
        \o (IF query # <<>> THEN <<"?">> \o query ELSE <<>>)
        \o (IF fragment # <<>> THEN <<"#">> \o fragment ELSE <<>>)

\* the segments urljoin resolves: those of the path when it starts with
\* "/", otherwise those of the base path "" followed by those of the
\* path, without the empty ones in the middle
RECURSIVE NonEmptyOnes(_)
NonEmptyOnes(segs) ==
    IF segs = <<>> THEN <<>>
    ELSE IF Head(segs) = <<>> THEN NonEmptyOnes(Tail(segs))
    ELSE <<Head(segs)>> \o NonEmptyOnes(Tail(segs))

RelativeSegments(all) ==
    <<all[1]>> \o NonEmptyOnes(SubSeq(all, 2, Len(all) - 1)) \o <<all[Len(all)]>>

JoinSegments(path) ==
    IF path[1] = "/" THEN Split(path, "/")
    ELSE RelativeSegments(<<<<>>>> \o Split(path, "/"))

\* the resolved_path loop: ".." pops the stack (the root element too),
\* "." is skipped
RECURSIVE ResolveSegs(_, _)
ResolveSegs(segs, acc) ==
    IF segs = <<>> THEN acc
    ELSE IF Head(segs) = <<".", ".">> THEN
        ResolveSegs(Tail(segs), IF acc = <<>> THEN acc ELSE SubSeq(acc, 1, Len(acc) - 1))
    ELSE IF Head(segs) = <<".">> THEN ResolveSegs(Tail(segs), acc)
    ELSE ResolveSegs(Tail(segs), Append(acc, Head(segs)))

\* a path that ends in "." or ".." ends in "/"
Resolved(segs) ==
    IF segs[Len(segs)] \in {<<".">>, <<".", ".">>} THEN Append(ResolveSegs(segs, <<>>), <<>>)
    ELSE ResolveSegs(segs, <<>>)

\* '/'.join(resolved_path) or '/'
PathOrRoot(path) == IF path = <<>> THEN <<"/">> ELSE path

ResolvedPath(path) == PathOrRoot(Join(Resolved(JoinSegments(path)), "/"))

\* the mutation of urljoin that hands the href back unresolved
UrlJoinUnresolved(h) == h.raw

\* urljoin once the href is split into p
UrlJoinSplit(raw, p) ==
    IF p.scheme # BaseScheme THEN raw
    ELSE IF p.netloc # <<>> THEN UrlUnsplit(p.scheme, p.netloc, p.path, p.query, p.fragment)
    ELSE IF p.path = <<>> THEN UrlUnsplit(p.scheme, BaseNetloc, <<>>, p.query, p.fragment)
    ELSE UrlUnsplit(p.scheme, BaseNetloc, ResolvedPath(p.path), p.query, p.fragment)

UrlJoin(h) == UrlJoinSplit(h.raw, UrlSplit(h.raw, BaseScheme))

\* a url is absolute when it carries a scheme
IsAbsolute(u) == SchemeEnd(UrlCleaned(u)) > 0
\* the url is not the empty string
IsNonEmptyUrl(u) == u # <<>>

(***************************************************************************)
(* The selector of line 35: a[href*="/item/"], a[data-aut-id="itemTitle"]. *)
(***************************************************************************)
\* the href as written contains the substring "/item/"
ContainsItem(h) ==
    /\ h.present
    /\ \E i \in 1..(Len(h.raw) - 2) :
         h.raw[i] = "/" /\ h.raw[i + 1] = "item" /\ h.raw[i + 2] = "/"

IsCard(a) == ContainsItem(a.href) \/ a.aut

RECURSIVE SelectCards(_)
SelectCards(anchors) ==
    IF anchors = <<>> THEN <<>>
    ELSE IF IsCard(Head(anchors)) THEN <<Head(anchors)>> \o SelectCards(Tail(anchors))
    ELSE SelectCards(Tail(anchors))

(***************************************************************************)
(* Character classes of the two regular expressions, lines 70 and 75, and  *)
(* of str.strip.  The patterns are str patterns, so \d and \s are the      *)
(* Unicode classes.                                                        *)
(***************************************************************************)
\* \d: the characters of Unicode category Nd
Digits ==
    {"0", "1", "2", "3", "4", "5", "6", "7", "8", "9",
     "U+0660", "U+0661", "U+0662", "U+0663", "U+0664", "U+0665", "U+0666", "U+0667", "U+0668", "U+0669",
     "U+06F0", "U+06F1", "U+06F2", "U+06F3", "U+06F4", "U+06F5", "U+06F6", "U+06F7", "U+06F8", "U+06F9",
     "U+07C0", "U+07C1", "U+07C2", "U+07C3", "U+07C4", "U+07C5", "U+07C6", "U+07C7", "U+07C8", "U+07C9",
     "U+0966", "U+0967", "U+0968", "U+0969", "U+096A", "U+096B", "U+096C", "U+096D", "U+096E", "U+096F",
     "U+09E6", "U+09E7", "U+09E8", "U+09E9", "U+09EA", "U+09EB", "U+09EC", "U+09ED", "U+09EE", "U+09EF",
     "U+0A66", "U+0A67", "U+0A68", "U+0A69", "U+0A6A", "U+0A6B", "U+0A6C", "U+0A6D", "U+0A6E", "U+0A6F",
     "U+0AE6", "U+0AE7", "U+0AE8", "U+0AE9", "U+0AEA", "U+0AEB", "U+0AEC", "U+0AED", "U+0AEE", "U+0AEF",
     "U+0B66", "U+0B67", "U+0B68", "U+0B69", "U+0B6A", "U+0B6B", "U+0B6C", "U+0B6D", "U+0B6E", "U+0B6F",
     "U+0BE6", "U+0BE7", "U+0BE8", "U+0BE9", "U+0BEA", "U+0BEB", "U+0BEC", "U+0BED", "U+0BEE", "U+0BEF",
     "U+0C66", "U+0C67", "U+0C68", "U+0C69", "U+0C6A", "U+0C6B", "U+0C6C", "U+0C6D", "U+0C6E", "U+0C6F",
     "U+0CE6", "U+0CE7", "U+0CE8", "U+0CE9", "U+0CEA", "U+0CEB", "U+0CEC", "U+0CED", "U+0CEE", "U+0CEF",
     "U+0D66", "U+0D67", "U+0D68", "U+0D69", "U+0D6A", "U+0D6B", "U+0D6C", "U+0D6D", "U+0D6E", "U+0D6F",
     "U+0DE6", "U+0DE7", "U+0DE8", "U+0DE9", "U+0DEA", "U+0DEB", "U+0DEC", "U+0DED", "U+0DEE", "U+0DEF",
     "U+0E50", "U+0E51", "U+0E52", "U+0E53", "U+0E54", "U+0E55", "U+0E56", "U+0E57", "U+0E58", "U+0E59",
     "U+0ED0", "U+0ED1", "U+0ED2", "U+0ED3", "U+0ED4", "U+0ED5", "U+0ED6", "U+0ED7", "U+0ED8", "U+0ED9",
     "U+0F20", "U+0F21", "U+0F22", "U+0F23", "U+0F24", "U+0F25", "U+0F26", "U+0F27", "U+0F28", "U+0F29",
     "U+1040", "U+1041", "U+1042", "U+1043", "U+1044", "U+1045", "U+1046", "U+1047", "U+1048", "U+1049",
     "U+1090", "U+1091", "U+1092", "U+1093", "U+1094", "U+1095", "U+1096", "U+1097", "U+1098", "U+1099",
     "U+17E0", "U+17E1", "U+17E2", "U+17E3", "U+17E4", "U+17E5", "U+17E6", "U+17E7", "U+17E8", "U+17E9",
     "U+1810", "U+1811", "U+1812", "U+1813", "U+1814", "U+1815", "U+1816", "U+1817", "U+1818", "U+1819",
     "U+1946", "U+1947", "U+1948", "U+1949", "U+194A", "U+194B", "U+194C", "U+194D", "U+194E", "U+194F",
     "U+19D0", "U+19D1", "U+19D2", "U+19D3", "U+19D4", "U+19D5", "U+19D6", "U+19D7", "U+19D8", "U+19D9",
     "U+1A80", "U+1A81", "U+1A82", "U+1A83", "U+1A84", "U+1A85", "U+1A86", "U+1A87", "U+1A88", "U+1A89",
     "U+1A90", "U+1A91", "U+1A92", "U+1A93", "U+1A94", "U+1A95", "U+1A96", "U+1A97", "U+1A98", "U+1A99",
     "U+1B50", "U+1B51", "U+1B52", "U+1B53", "U+1B54", "U+1B55", "U+1B56", "U+1B57", "U+1B58", "U+1B59",
     "U+1BB0", "U+1BB1", "U+1BB2", "U+1BB3", "U+1BB4", "U+1BB5", "U+1BB6", "U+1BB7", "U+1BB8", "U+1BB9",
     "U+1C40", "U+1C41", "U+1C42", "U+1C43", "U+1C44", "U+1C45", "U+1C46", "U+1C47", "U+1C48", "U+1C49",
     "U+1C50", "U+1C51", "U+1C52", "U+1C53", "U+1C54", "U+1C55", "U+1C56", "U+1C57", "U+1C58", "U+1C59",
     "U+A620", "U+A621", "U+A622", "U+A623", "U+A624", "U+A625", "U+A626", "U+A627", "U+A628", "U+A629",
     "U+A8D0", "U+A8D1", "U+A8D2", "U+A8D3", "U+A8D4", "U+A8D5", "U+A8D6", "U+A8D7", "U+A8D8", "U+A8D9",
     "U+A900", "U+A901", "U+A902", "U+A903", "U+A904", "U+A905", "U+A906", "U+A907", "U+A908", "U+A909",
     "U+A9D0", "U+A9D1", "U+A9D2", "U+A9D3", "U+A9D4", "U+A9D5", "U+A9D6", "U+A9D7", "U+A9D8", "U+A9D9",
     "U+A9F0", "U+A9F1", "U+A9F2", "U+A9F3", "U+A9F4", "U+A9F5", "U+A9F6", "U+A9F7", "U+A9F8", "U+A9F9",
     "U+AA50", "U+AA51", "U+AA52", "U+AA53", "U+AA54", "U+AA55", "U+AA56", "U+AA57", "U+AA58", "U+AA59",
     "U+ABF0", "U+ABF1", "U+ABF2", "U+ABF3", "U+ABF4", "U+ABF5", "U+ABF6", "U+ABF7", "U+ABF8", "U+ABF9",
     "U+FF10", "U+FF11", "U+FF12", "U+FF13", "U+FF14", "U+FF15", "U+FF16", "U+FF17", "U+FF18", "U+FF19",
     "U+104A0", "U+104A1", "U+104A2", "U+104A3", "U+104A4", "U+104A5", "U+104A6", "U+104A7", "U+104A8", "U+104A9",
     "U+10D30", "U+10D31", "U+10D32", "U+10D33", "U+10D34", "U+10D35", "U+10D36", "U+10D37", "U+10D38", "U+10D39",
     "U+11066", "U+11067", "U+11068", "U+11069", "U+1106A", "U+1106B", "U+1106C", "U+1106D", "U+1106E", "U+1106F",
     "U+110F0", "U+110F1", "U+110F2", "U+110F3", "U+110F4", "U+110F5", "U+110F6", "U+110F7", "U+110F8", "U+110F9",
     "U+11136", "U+11137", "U+11138", "U+11139", "U+1113A", "U+1113B", "U+1113C", "U+1113D", "U+1113E", "U+1113F",
     "U+111D0", "U+111D1", "U+111D2", "U+111D3", "U+111D4", "U+111D5", "U+111D6", "U+111D7", "U+111D8", "U+111D9",
     "U+112F0", "U+112F1", "U+112F2", "U+112F3", "U+112F4", "U+112F5", "U+112F6", "U+112F7", "U+112F8", "U+112F9",
     "U+11450", "U+11451", "U+11452", "U+11453", "U+11454", "U+11455", "U+11456", "U+11457", "U+11458", "U+11459",
     "U+114D0", "U+114D1", "U+114D2", "U+114D3", "U+114D4", "U+114D5", "U+114D6", "U+114D7", "U+114D8", "U+114D9",
     "U+11650", "U+11651", "U+11652", "U+11653", "U+11654", "U+11655", "U+11656", "U+11657", "U+11658", "U+11659",
     "U+116C0", "U+116C1", "U+116C2", "U+116C3", "U+116C4", "U+116C5", "U+116C6", "U+116C7", "U+116C8", "U+116C9",
     "U+11730", "U+11731", "U+11732", "U+11733", "U+11734", "U+11735", "U+11736", "U+11737", "U+11738", "U+11739",
     "U+118E0", "U+118E1", "U+118E2", "U+118E3", "U+118E4", "U+118E5", "U+118E6", "U+118E7", "U+118E8", "U+118E9",
     "U+11950", "U+11951", "U+11952", "U+11953", "U+11954", "U+11955", "U+11956", "U+11957", "U+11958", "U+11959",
     "U+11C50", "U+11C51", "U+11C52", "U+11C53", "U+11C54", "U+11C55", "U+11C56", "U+11C57", "U+11C58", "U+11C59",
     "U+11D50", "U+11D51", "U+11D52", "U+11D53", "U+11D54", "U+11D55", "U+11D56", "U+11D57", "U+11D58", "U+11D59",
     "U+11DA0", "U+11DA1", "U+11DA2", "U+11DA3", "U+11DA4", "U+11DA5", "U+11DA6", "U+11DA7", "U+11DA8", "U+11DA9",
     "U+16A60", "U+16A61", "U+16A62", "U+16A63", "U+16A64", "U+16A65", "U+16A66", "U+16A67", "U+16A68", "U+16A69",
     "U+16AC0", "U+16AC1", "U+16AC2", "U+16AC3", "U+16AC4", "U+16AC5", "U+16AC6", "U+16AC7", "U+16AC8", "U+16AC9",
     "U+16B50", "U+16B51", "U+16B52", "U+16B53", "U+16B54", "U+16B55", "U+16B56", "U+16B57", "U+16B58", "U+16B59",
     "U+1D7CE", "U+1D7CF", "U+1D7D0", "U+1D7D1", "U+1D7D2", "U+1D7D3", "U+1D7D4", "U+1D7D5", "U+1D7D6", "U+1D7D7",
     "U+1D7D8", "U+1D7D9", "U+1D7DA", "U+1D7DB", "U+1D7DC", "U+1D7DD", "U+1D7DE", "U+1D7DF", "U+1D7E0", "U+1D7E1",
     "U+1D7E2", "U+1D7E3", "U+1D7E4", "U+1D7E5", "U+1D7E6", "U+1D7E7", "U+1D7E8", "U+1D7E9", "U+1D7EA", "U+1D7EB",
     "U+1D7EC", "U+1D7ED", "U+1D7EE", "U+1D7EF", "U+1D7F0", "U+1D7F1", "U+1D7F2", "U+1D7F3", "U+1D7F4", "U+1D7F5",
     "U+1D7F6", "U+1D7F7", "U+1D7F8", "U+1D7F9", "U+1D7FA", "U+1D7FB", "U+1D7FC", "U+1D7FD", "U+1D7FE", "U+1D7FF",
     "U+1E140", "U+1E141", "U+1E142", "U+1E143", "U+1E144", "U+1E145", "U+1E146", "U+1E147", "U+1E148", "U+1E149",
     "U+1E2F0", "U+1E2F1", "U+1E2F2", "U+1E2F3", "U+1E2F4", "U+1E2F5", "U+1E2F6", "U+1E2F7", "U+1E2F8", "U+1E2F9",
     "U+1E950", "U+1E951", "U+1E952", "U+1E953", "U+1E954", "U+1E955", "U+1E956", "U+1E957", "U+1E958", "U+1E959",
     "U+1FBF0", "U+1FBF1", "U+1FBF2", "U+1FBF3", "U+1FBF4", "U+1FBF5", "U+1FBF6", "U+1FBF7", "U+1FBF8", "U+1FBF9"}
Upper == {"A", "B", "C", "D", "E", "F", "G", "H", "I", "J", "K", "L", "M",
          "N", "O", "P", "Q", "R", "S", "T", "U", "V", "W", "X", "Y", "Z"}
Lower == {"a", "b", "c", "d", "e", "f", "g", "h", "i", "j", "k", "l", "m",
          "n", "o", "p", "q", "r", "s", "t", "u", "v", "w", "x", "y", "z"}
\* \s, which is also what str.strip removes: blank, tab, LF, VT, FF, CR,
\* the separators U+001C to U+001F, NEL, and the Unicode spaces
Whitespace ==
    {" ", "TAB", "U+000A", "U+000B", "U+000C", "U+000D", "U+001C", "U+001D",
     "U+001E", "U+001F", "U+0085", "U+00A0", "U+1680", "U+2000", "U+2001", "U+2002",
     "U+2003", "U+2004", "U+2005", "U+2006", "U+2007", "U+2008", "U+2009", "U+200A",
     "U+2028", "U+2029", "U+202F", "U+205F", "U+3000"}
\* [\d,]
DigitOrComma == Digits \cup {","}
\* [A-Za-z .,-]
PlaceChars == Upper \cup Lower \cup {" ", ".", ",", "-"}

\* the end of the longest run of characters of class cls starting at
\* position i (i - 1 when text[i] is not in cls): a greedy cls*
RECURSIVE RunEnd(_, _, _)
RunEnd(text, i, cls) ==
    IF i <= Len(text) /\ text[i] \in cls THEN RunEnd(text, i + 1, cls) ELSE i - 1

(***************************************************************************)
(* re.search(r"Rs\s?[\d,]+", text), lines 70-72.                           *)
(***************************************************************************)
\* where the digit-or-comma run starts for a match that begins at i
PriceRunStart(text, i) ==
    IF i + 1 <= Len(text) /\ text[i + 1] \in Whitespace THEN i + 2 ELSE i + 1

PriceMatchesAt(text, i) ==
    /\ text[i] = "Rs"
    /\ RunEnd(text, PriceRunStart(text, i), DigitOrComma) >= PriceRunStart(text, i)

\* the mutation of the search that demands a digit right after the sign
PriceSearchNoSpace(text) ==
    LET hits == {i \in 1..Len(text) :
                   text[i] = "Rs" /\ RunEnd(text, i + 1, Digits) >= i + 1} IN
    IF hits = {} THEN NoneText
    ELSE LET i == CHOOSE k \in hits : \A j \in hits : k <= j IN
         SomeText(SubSeq(text, i, RunEnd(text, i + 1, Digits)))

PriceSearch(text) ==
    LET hits == {i \in 1..Len(text) : PriceMatchesAt(text, i)} IN
    IF hits = {} THEN NoneText
    ELSE LET i == CHOOSE k \in hits : \A j \in hits : k <= j IN
         SomeText(SubSeq(text, i, RunEnd(text, PriceRunStart(text, i), DigitOrComma)))

(***************************************************************************)
(* re.search(r"(?:in|at|bullet)\s+([A-Z][A-Za-z .,-]{2,})", text) and      *)
(* m2.group(1).strip(), lines 75-77.                                       *)
(***************************************************************************)
\* the position after the connector that starts at i, 0 when none does
ConnectorEnd(text, i) ==
    IF text[i] = "bullet" THEN i + 1
    ELSE IF i + 1 <= Len(text) /\ text[i] = "i" /\ text[i + 1] = "n" THEN i + 2
    ELSE IF i + 1 <= Len(text) /\ text[i] = "a" /\ text[i + 1] = "t" THEN i + 2
    ELSE 0

\* the position of the capital letter of a match that begins at i, 0 when none
PlaceStart(text, i) ==
    LET c == ConnectorEnd(text, i) IN
    IF c = 0 THEN 0
    ELSE LET w == RunEnd(text, c, Whitespace) IN
         IF w >= c /\ w + 1 <= Len(text) /\ text[w + 1] \in Upper
              /\ RunEnd(text, w + 2, PlaceChars) >= w + 3
         THEN w + 1 ELSE 0

\* str.strip
RECURSIVE StripRight(_)
StripRight(t) ==
    IF t # <<>> /\ t[Len(t)] \in Whitespace THEN StripRight(SubSeq(t, 1, Len(t) - 1)) ELSE t

Strip(t) == StripRight(DropWhile(t, Whitespace))

LocationSearch(text) ==
    LET hits == {i \in 1..Len(text) : PlaceStart(text, i) > 0} IN
    IF hits = {} THEN NoneText
    ELSE LET i == CHOOSE k \in hits : \A j \in hits : k <= j
             u == PlaceStart(text, i) IN
         SomeText(Strip(SubSeq(text, u, RunEnd(text, u + 1, PlaceChars))))

\* text[:300] of line 67
SnippetMax == 300
Snippet(text) ==
    IF text = <<>> THEN NoneText
    ELSE SomeText(SubSeq(text, 1, IF Len(text) < SnippetMax THEN Len(text) ELSE SnippetMax))

(***************************************************************************)
(* get_text(" ", strip=True), lines 50 and 66: every text node is          *)
(* stripped, the empty ones are dropped, the others are joined with one    *)
(* blank.                                                                  *)
(***************************************************************************)
RECURSIVE StrippedNodes(_)
StrippedNodes(nodes) ==
    IF nodes = <<>> THEN <<>>
    ELSE IF Strip(Head(nodes)) = <<>> THEN StrippedNodes(Tail(nodes))
    ELSE <<Strip(Head(nodes))>> \o StrippedNodes(Tail(nodes))

GetText(nodes) == Join(StrippedNodes(nodes), " ")

(***************************************************************************)
(* extract_listings, lines 31-89.                                          *)
(***************************************************************************)
\* an <a> element in its block: href attribute, data-aut-id="itemTitle"
\* marker, the text node inside it and the text nodes before and after it
\* in the block (a node that is not there is the empty text)
Anchor(href, aut, own, before, after) ==
    [href |-> href, aut |-> aut, own |-> own, before |-> before, after |-> after]

\* a.get_text(" ", strip=True) of line 50
OwnText(a) == GetText(<<a.own>>)
\* parent.get_text(" ", strip=True) of line 66, parent being the block
ParentText(a) == GetText(<<a.before, a.own, a.after>>)

\* the record of lines 79-85
Record(a) ==
    [title |-> IF OwnText(a) = <<>> THEN NoneText ELSE SomeText(OwnText(a)),
     url |-> UrlJoin(a.href),
     price_guess |-> PriceSearch(ParentText(a)),
     location_guess |-> LocationSearch(ParentText(a)),
     snippet |-> Snippet(ParentText(a))]

\* the loop of lines 39-86 over the selected cards, with its seen set
RECURSIVE ExtractLoop(_, _, _)
ExtractLoop(cards, results, seen) ==
    IF cards = <<>> THEN results
    ELSE LET a == Head(cards) IN
         IF NotHref(a.href) THEN ExtractLoop(Tail(cards), results, seen)
         ELSE IF UrlJoin(a.href) \in seen THEN ExtractLoop(Tail(cards), results, seen)
         ELSE ExtractLoop(Tail(cards), Append(results, Record(a)), seen \cup {UrlJoin(a.href)})

\* the mutation of the loop that forgets its seen set
RECURSIVE ExtractLoopNoSeen(_, _, _)
ExtractLoopNoSeen(cards, results, seen) ==
    IF cards = <<>> THEN results
    ELSE LET a == Head(cards) IN
         IF NotHref(a.href) THEN ExtractLoopNoSeen(Tail(cards), results, seen)
         ELSE ExtractLoopNoSeen(Tail(cards), Append(results, Record(a)), seen)

ExtractListingsNoSeen(anchors) == ExtractLoopNoSeen(SelectCards(anchors), <<>>, {})

extract_listings(anchors) == ExtractLoop(SelectCards(anchors), <<>>, {})

\* the anchors of a page that are listings: selected, and with an href
ListingAnchors(anchors) ==
    {i \in 1..Len(anchors) : IsCard(anchors[i]) /\ ~NotHref(anchors[i].href)}

\* the urls of the listings of a page
PageUrls(anchors) == {UrlJoin(anchors[i].href) : i \in ListingAnchors(anchors)}

\* extract_listings raises: urljoin is reached (line 44) for a card whose
\* href it cannot split; nothing catches the ValueError
ExtractRaises(anchors) ==
    \E i \in 1..Len(SelectCards(anchors)) :
        LET a == SelectCards(anchors)[i] IN ~NotHref(a.href) /\ UrlJoinRaises(a.href)

(***************************************************************************)
(* scrape's row handling, lines 111-117.                                   *)
(***************************************************************************)
RECURSIVE FilterSeq(_, _)
FilterSeq(rs, seen) ==
    IF rs = <<>> THEN <<>>
    ELSE IF Head(rs).url \notin seen THEN <<Head(rs)>> \o FilterSeq(Tail(rs), seen)
    ELSE FilterSeq(Tail(rs), seen)

\* the mutation of the filter that keeps every row
NewRowsUnfiltered(rs, seen) == rs

\* new_rows = [r for r in rows if r["url"] not in seen_urls]
NewRows(rs, seen) == FilterSeq(rs, seen)

UrlsOf(rs) == {rs[i].url : i \in 1..Len(rs)}

\* `not html` of line 105: None, or the empty string
HtmlNone == [ok |-> FALSE, empty |-> TRUE, anchors |-> <<>>]
HtmlText(empty, anchors) == [ok |-> TRUE, empty |-> empty, anchors |-> anchors]

\* the mutation of the test that only looks for None
NotHtmlIsNone(h) == ~h.ok

NotHtml(h) == (~h.ok) \/ h.empty

\* range(1, max_pages + 1) has a value after p
RangeHasNextInclusive(p, m) == p <= m

RangeHasNext(p, m) == p < m

\* where `break` (lines 107, 114) leaves the loop: the return of line 120
\* and, in __main__, save_csv
ContinueLoop == "loop"

BreakLoop == "save"

(***************************************************************************)
(* save_csv, lines 122-131: DictWriter renders None as an empty cell.      *)
(***************************************************************************)
CellText(o) == IF o.some THEN o.v ELSE <<>>

CsvRow(r) ==
    [title |-> CellText(r.title), url |-> r.url, price_guess |-> CellText(r.price_guess),
     location_guess |-> CellText(r.location_guess), snippet |-> CellText(r.snippet)]

CsvRows(rs) == [i \in 1..Len(rs) |-> CsvRow(rs[i])]

Fieldnames == <<"title", "url", "price_guess", "location_guess", "snippet">>

NoFile == [exists |-> FALSE, header |-> <<>>, body |-> <<>>]

(***************************************************************************)
(* The inputs: page bodies and HTTP responses.                             *)
(***************************************************************************)
\* "Used car cover for sale in Mumbai Rs 1,200", the text of Scenario D
CtxScenarioD ==
    <<"U", "s", "e", "d", " ", "c", "a", "r", " ", "c", "o", "v", "e", "r", " ",
      "f", "o", "r", " ", "s", "a", "l", "e", " ", "i", "n", " ", "M", "u", "m",
      "b", "a", "i", " ", "Rs", " ", "1", ",", "2", "0", "0">>
\* a line feed, "bullet Goa", a blank
CtxPlace == <<"U+000A", "bullet", " ", "G", "o", "a", " ">>
\* "Cover " and a letter
Cover(letter) == <<"C", "o", "v", "e", "r", " ", letter>>

\* <a href="/item/1">Cover A</a> Used car cover ...
AnchorItem1 == Anchor(Href(<<"/", "item", "/", "1">>), FALSE, Cover("A"), <<>>, CtxScenarioD)
\* <a href="HTTPS://www.olx.in/item/1">: the same listing, linked a second time
AnchorItem1Abs ==
    Anchor(Href(<<"HTTPS", ":", "/", "/", "www.olx.in", "/", "item", "/", "1">>), TRUE,
           Cover("B"), <<>>, <<>>)
\* bullet Goa <a href="/item/2"> </a>: an anchor with no text of its own
AnchorItem2 == Anchor(Href(<<"/", "item", "/", "2">>), FALSE, <<" ">>, CtxPlace, <<>>)
\* <a href="../item/3">
AnchorItem3 == Anchor(Href(<<".", ".", "/", "item", "/", "3">>), FALSE, Cover("C"), <<>>, <<>>)
\* <a data-aut-id="itemTitle"> without href
AnchorNoHref == Anchor(NoHref, TRUE, Cover("D"), <<>>, <<>>)
\* <a data-aut-id="itemTitle" href="">
AnchorEmptyHref == Anchor(EmptyHref, TRUE, Cover("E"), <<>>, <<>>)
\* <a data-aut-id="itemTitle" href="javascript:void(0)">
AnchorScript == Anchor(Href(<<"javascript", ":", "void(0)">>), TRUE, Cover("F"), <<>>, <<>>)
\* <a href="/help">, which the selector does not match
AnchorHelp == Anchor(Href(<<"/", "help">>), FALSE, <<"H", "e", "l", "p">>, <<>>, <<>>)
\* <a href="//[/item/9">
AnchorBadHost == Anchor(Href(<<"/", "/", "[", "/", "item", "/", "9">>), FALSE, Cover("G"), <<>>, <<>>)
\* <a href="//[x]/item/9">
AnchorBadLiteral ==
    Anchor(Href(<<"/", "/", "[", "x", "]", "/", "item", "/", "9">>), FALSE, Cover("H"), <<>>, <<>>)
\* <a href="//[::1]/item/9">
AnchorLiteral ==
    Anchor(Href(<<"/", "/", "[", ":", ":", "1", "]", "/", "item", "/", "9">>), FALSE,
           Cover("I"), <<>>, <<>>)
\* <a href="#/item/1">
AnchorFragment == Anchor(Href(<<"#", "/", "item", "/", "1">>), FALSE, Cover("J"), <<>>, <<>>)
\* <a href="//item/x">
AnchorHostItem == Anchor(Href(<<"/", "/", "item", "/", "x">>), FALSE, Cover("K"), <<>>, <<>>)
\* <a href=" a//item/1?next=/a/../b">
AnchorQuery ==
    Anchor(Href(<<" ", "a", "/", "/", "item", "/", "1", "?", "next=", "/", "a", "/", ".", ".", "/", "b">>),
           FALSE, Cover("L"), <<>>, <<>>)
\* <a href="/..//item/1">
AnchorAboveRoot ==
    Anchor(Href(<<"/", ".", ".", "/", "/", "item", "/", "1">>), FALSE, Cover("M"), <<>>, <<>>)
\* <a href="/item/3/x/.<tab>.">: the tab goes, the segment is ".."
AnchorTabDots ==
    Anchor(Href(<<"/", "item", "/", "3", "/", "x", "/", ".", "TAB", ".">>), FALSE,
           Cover("N"), <<>>, <<>>)

\* the anchors of the pages the pagination loop is run over
AnchorPool == {AnchorItem1, AnchorItem1Abs, AnchorItem2, AnchorBadHost}

\* the anchors of the pages a single extraction is run over
CardPool ==
    {AnchorItem1, AnchorItem1Abs, AnchorItem2, AnchorItem3, AnchorNoHref,
     AnchorEmptyHref, AnchorScript, AnchorHelp, AnchorBadHost, AnchorBadLiteral,
     AnchorLiteral, AnchorFragment, AnchorHostItem, AnchorQuery, AnchorAboveRoot,
     AnchorTabDots}

SeqsUpTo(S, n) == UNION {[1..k -> S] : k \in 0..n}

\* the listings of Scenario A: page 1 has ten, page 2 has five of which two
\* are on page 1
ScenarioIds == <<"s01", "s02", "s03", "s04", "s05", "s06", "s07", "s08", "s09", "s10",
                 "s11", "s12", "s13">>
ScenarioTitles ==
    <<<<"s", "0", "1">>, <<"s", "0", "2">>, <<"s", "0", "3">>, <<"s", "0", "4">>,
      <<"s", "0", "5">>, <<"s", "0", "6">>, <<"s", "0", "7">>, <<"s", "0", "8">>,
      <<"s", "0", "9">>, <<"s", "1", "0">>, <<"s", "1", "1">>, <<"s", "1", "2">>,
      <<"s", "1", "3">>>>
\* <a href="/item/sk">sk</a>
ScenarioAnchor(k) ==
    Anchor(Href(<<"/", "item", "/", ScenarioIds[k]>>), FALSE, ScenarioTitles[k], <<>>, <<>>)
ScenarioPage1 == [k \in 1..10 |-> ScenarioAnchor(k)]
ScenarioPage2 == [k \in 1..5 |-> ScenarioAnchor(k + 8)]

Bodies == SeqsUpTo(AnchorPool, MaxAnchors) \cup {ScenarioPage1, ScenarioPage2}


\* what session.get does: raises, or returns a response with a status code
\* and a text
Raised == [raised |-> TRUE, status_code |-> 0, text |-> HtmlText(TRUE, <<>>)]
Response(code, text) == [raised |-> FALSE, status_code |-> code, text |-> text]

Responses ==
    {Raised, Response(404, HtmlText(FALSE, <<>>)), Response(200, HtmlText(TRUE, <<>>))}
    \cup {Response(200, HtmlText(FALSE, b)) : b \in Bodies}

\* fetch_page, lines 19-29
fetch_page(resp) ==
    IF resp.raised THEN HtmlNone
    ELSE IF resp.status_code = 200 THEN resp.text
    ELSE HtmlNone

\* what fetch_page prints to stderr
FetchLog(resp) ==
    IF resp.raised THEN <<[ev |-> "error", n |-> 0]>>
    ELSE IF resp.status_code = 200 THEN <<>>
    ELSE <<[ev |-> "warn_http", n |-> resp.status_code]>>

Ev(e, n) == [ev |-> e, n |-> n]

(***************************************************************************)
(* The state machine: __main__ runs scrape, then save_csv.                 *)
(***************************************************************************)
Init ==
    /\ max_pages \in 0..MaxPages
    /\ page_num = 0
    /\ pc = "loop"
    /\ html = HtmlNone
    /\ rows = <<>>
    /\ all_rows = <<>>
    /\ seen_urls = {}
    /\ file = NoFile
    /\ writes = 0
    /\ events = <<>>
    /\ page_urls = {}

\* the for statement of line 101
LoopHead ==
    /\ pc = "loop"
    /\ IF RangeHasNext(page_num, max_pages)
       THEN page_num' = page_num + 1 /\ pc' = "fetch"
       ELSE page_num' = page_num /\ pc' = "save"
    /\ UNCHANGED <<max_pages, html, rows, all_rows, seen_urls, file, writes, events, page_urls>>

\* lines 102-107 for one response of the server
Fetch(resp) ==
    /\ pc = "fetch"
    /\ html' = fetch_page(resp)
    /\ IF NotHtml(fetch_page(resp))
       THEN /\ events' = events \o <<Ev("fetching", page_num)>> \o FetchLog(resp)
                                \o <<Ev("no_html", page_num)>>
            /\ pc' = BreakLoop
       ELSE /\ events' = events \o <<Ev("fetching", page_num)>> \o FetchLog(resp)
            /\ pc' = "extract"
    /\ UNCHANGED <<max_pages, page_num, rows, all_rows, seen_urls, file, writes, page_urls>>

FetchStep == \E resp \in Responses : Fetch(resp)

\* line 109
ExtractStep ==
    /\ pc = "extract"
    /\ IF ExtractRaises(html.anchors)
       THEN /\ pc' = "crashed"
            /\ rows' = rows
            /\ events' = Append(events, Ev("traceback", page_num))
            /\ page_urls' = page_urls
       ELSE /\ pc' = "filter"
            /\ rows' = extract_listings(html.anchors)
            /\ events' = Append(events, Ev("extract", page_num))
            /\ page_urls' = page_urls \cup PageUrls(html.anchors)
    /\ UNCHANGED <<max_pages, page_num, html, all_rows, seen_urls, file, writes>>

\* lines 111-117
FilterStep ==
    /\ pc = "filter"
    /\ LET new_rows == NewRows(rows, seen_urls) IN
       IF new_rows = <<>>
       THEN /\ events' = Append(events, Ev("no_new_rows", page_num))
            /\ pc' = BreakLoop
            /\ UNCHANGED <<all_rows, seen_urls>>
       ELSE /\ all_rows' = all_rows \o new_rows
            /\ seen_urls' = seen_urls \cup UrlsOf(new_rows)
            /\ events' = Append(events, Ev("extend", page_num))
            /\ pc' = "sleep"
    /\ UNCHANGED <<max_pages, page_num, html, rows, file, writes, page_urls>>

\* line 118
SleepStep ==
    /\ pc = "sleep"
    /\ events' = Append(events, Ev("sleep", page_num))
    /\ pc' = "loop"
    /\ UNCHANGED <<max_pages, page_num, html, rows, all_rows, seen_urls, file, writes, page_urls>>

\* lines 120 and 143-144: scrape returns all_rows, save_csv gets it
SaveCsv ==
    /\ pc = "save"
    /\ IF all_rows = <<>>
       THEN /\ events' = events \o <<Ev("no_rows_to_save", 0), Ev("done", 0)>>
            /\ UNCHANGED <<file, writes>>
       ELSE /\ file' = [exists |-> TRUE, header |-> Fieldnames, body |-> CsvRows(all_rows)]
            /\ writes' = writes + 1
            /\ events' = events \o <<Ev("saved", Len(all_rows)), Ev("done", 0)>>
    /\ pc' = "done"
    /\ UNCHANGED <<max_pages, page_num, html, rows, all_rows, seen_urls, page_urls>>

Next == LoopHead \/ FetchStep \/ ExtractStep \/ FilterStep \/ SleepStep \/ SaveCsv

Spec == Init /\ [][Next]_vars

(***************************************************************************)
(* The same program fed pages of one listing whose surrounding text ranges *)
(* over every short text: the specification for the price heuristic.       *)
(***************************************************************************)
TextAlphabet == {"Rs", " ", "U+00A0", "1", "U+0967", ","}
Texts == SeqsUpTo(TextAlphabet, MaxTextLen)
\* the texts tried after an anchor that holds the rupee sign
TextsAfterSign == SeqsUpTo(TextAlphabet, MaxTextLenAfterSign)

\* <a href="/item/1"></a>after and <a href="/item/1">Rs</a>after
TextResponses ==
    {Response(200, HtmlText(FALSE, <<Anchor(Href(<<"/", "item", "/", "1">>), FALSE, <<>>, <<>>, t)>>))
       : t \in Texts}
    \cup
    {Response(200, HtmlText(FALSE, <<Anchor(Href(<<"/", "item", "/", "1">>), FALSE, <<"Rs">>, <<>>, t)>>))
       : t \in TextsAfterSign}


InitOnePage ==
    /\ max_pages = 1
    /\ page_num = 0
    /\ pc = "loop"
    /\ html = HtmlNone
    /\ rows = <<>>
    /\ all_rows = <<>>
    /\ seen_urls = {}
    /\ file = NoFile
    /\ writes = 0
    /\ events = <<>>
    /\ page_urls = {}

FetchText == \E resp \in TextResponses : Fetch(resp)

NextText == LoopHead \/ FetchText \/ ExtractStep \/ FilterStep \/ SleepStep \/ SaveCsv

SpecText == InitOnePage /\ [][NextText]_vars

(***************************************************************************)
(* The same program fed one page drawn from every short sequence of every  *)
(* kind of anchor: the specification for the extraction of one page.       *)
(***************************************************************************)
CardResponses == {Response(200, HtmlText(FALSE, b)) : b \in SeqsUpTo(CardPool, MaxAnchors)}

FetchCards == \E resp \in CardResponses : Fetch(resp)

NextCards == LoopHead \/ FetchCards \/ ExtractStep \/ FilterStep \/ SleepStep \/ SaveCsv

SpecCards == InitOnePage /\ [][NextCards]_vars

(***************************************************************************)
(* Vocabulary of the properties.                                           *)
(***************************************************************************)
EventsOf(evs, e) == {i \in 1..Len(evs) : evs[i].ev = e}
Count(e) == Cardinality(EventsOf(events, e))

Returned == pc \in {"save", "done"}

\* once scrape has returned, its list is final and nothing more is fetched
ReturnedIsFinal ==
    Returned =>
        /\ all_rows' = all_rows
        /\ pc' \in {"save", "done"}
        /\ EventsOf(events', "fetching") = EventsOf(events, "fetching")
        /\ (file'.exists => file'.body = CsvRows(all_rows))

NoDuplicateUrl(rs) == \A i, j \in 1..Len(rs) : i # j => rs[i].url # rs[j].url

\* the record of the first listing anchor of a page that resolves to url u
FirstListingRecord(anchors, u) ==
    LET hits == {i \in ListingAnchors(anchors) : UrlJoin(anchors[i].href) = u}
        first == CHOOSE i \in hits : \A j \in hits : i <= j
    IN Record(anchors[first])

\* the k-th smallest element of a set of numbers
Kth(S, k) == CHOOSE i \in S : Cardinality({j \in S : j <= i}) = k

(***************************************************************************)
(* C1: in every step of every run the accumulated list has no two records  *)
(* with the same url, records once accumulated are never replaced or        *)
(* removed, every record appended comes from the first anchor of the        *)
(* current page with that url and its url is not yet in the list, and the   *)
(* saved file has the same property.                                        *)
(***************************************************************************)
C1_UniqueUrlFirstWins ==
    [][ /\ NoDuplicateUrl(all_rows')
        /\ Len(all_rows') >= Len(all_rows)
        /\ SubSeq(all_rows', 1, Len(all_rows)) = all_rows
        /\ \A k \in (Len(all_rows) + 1)..Len(all_rows') :
             /\ all_rows'[k].url \notin UrlsOf(all_rows)
             /\ all_rows'[k] = FirstListingRecord(html.anchors, all_rows'[k].url)
        /\ (file'.exists => NoDuplicateUrl(file'.body))
      ]_vars

\* page 2 or later was accepted although it links, with another anchor, a
\* listing that page 1 already gave: the record of page 1 is the one kept
C1_Witness ==
    /\ pc = "sleep"
    /\ page_num >= 2
    /\ \E i \in ListingAnchors(html.anchors) :
         /\ UrlJoin(html.anchors[i].href) = all_rows[1].url
         /\ Record(html.anchors[i]) # all_rows[1]
    /\ Len(all_rows) >= 2

(***************************************************************************)
(* C2: a step in which the fetch of page p fails (fetch_page reports a     *)
(* status other than 200, or an exception of the request) leaves the        *)
(* accumulated list as it is and ends the loop; after the loop has ended no *)
(* page is fetched and the list is what is returned and saved.              *)
(***************************************************************************)
FetchFailed ==
    /\ pc = "fetch"
    /\ \E i \in (Len(events) + 1)..Len(events') : events'[i].ev \in {"warn_http", "error"}

C2_FetchFailureStops ==
    [][ /\ FetchFailed => (all_rows' = all_rows /\ page_num' = page_num /\ pc' = "save")
        /\ ReturnedIsFinal
      ]_vars

\* page 2 or later answered 404 with page budget left: page 1's rows were
\* saved and no further page was fetched
C2_Witness ==
    /\ pc = "done"
    /\ Count("warn_http") = 1
    /\ page_num >= 2
    /\ page_num < max_pages
    /\ all_rows # <<>>
    /\ file.exists
    /\ Count("fetching") = page_num

(***************************************************************************)
(* C3: when the rows extracted from page p hold no url that is not already *)
(* in the accumulated list (no rows at all, or duplicates only), the step   *)
(* adds nothing and ends the loop; after the loop has ended no page is      *)
(* fetched and the list is what is returned and saved.                      *)
(***************************************************************************)
C3_NoNewRowsStops ==
    [][ /\ (pc = "filter" /\ \A i \in 1..Len(rows) : rows[i].url \in UrlsOf(all_rows))
            => (all_rows' = all_rows /\ seen_urls' = seen_urls /\ pc' = "save"
                /\ events' = Append(events, Ev("no_new_rows", page_num)))
        /\ ReturnedIsFinal
      ]_vars

\* page 2 or later gave only listings of earlier pages, with budget left
C3_Witness ==
    /\ pc = "done"
    /\ Count("no_new_rows") = 1
    /\ rows # <<>>
    /\ page_num >= 2
    /\ page_num < max_pages
    /\ Count("fetching") = page_num
    /\ all_rows # <<>>

(***************************************************************************)
(* C4: the pages fetched are 1, 2, ..., k in this order, each once, with    *)
(* k <= max_pages; the fetch of page p+1 comes right after the fetch,       *)
(* extraction, acceptance and sleep of page p; with max_pages = 1 there is  *)
(* at most one fetch and one extraction.                                    *)
(***************************************************************************)
C4_PagesInOrder ==
    LET f == EventsOf(events, "fetching") IN
    /\ \A i \in f : events[i].n = Cardinality({j \in f : j <= i})
    /\ Cardinality(f) <= max_pages
    /\ \A i \in f : events[i].n > 1 =>
         /\ i >= 5
         /\ events[i - 4] = Ev("fetching", events[i].n - 1)
         /\ events[i - 3] = Ev("extract", events[i].n - 1)
         /\ events[i - 2] = Ev("extend", events[i].n - 1)
         /\ events[i - 1] = Ev("sleep", events[i].n - 1)
    /\ Count("extract") <= Cardinality(f)
    /\ (max_pages = 1 => Cardinality(f) <= 1 /\ Count("extract") <= 1)

\* max_pages = 1 and page 1 gave new rows: the run ended after one cycle
C4_Witness ==
    /\ pc = "done"
    /\ max_pages = 1
    /\ Count("fetching") = 1
    /\ Count("extract") = 1
    /\ Count("extend") = 1

(***************************************************************************)
(* C5: when the rows of a page hold both urls already accumulated and urls  *)
(* not yet accumulated, the step appends exactly the rows with a new url,   *)
(* in page order, and goes on to the sleep; after the sleep the next page   *)
(* is fetched if page_num < max_pages; when scrape has returned the number  *)
(* of rows is the number of distinct urls of the pages extracted; and after *)
(* Scenario A's two pages the list has 13 rows and page 3 is fetched.       *)
(***************************************************************************)
ScenarioAProcessed ==
    /\ page_num = 2
    /\ html = HtmlText(FALSE, ScenarioPage2)
    /\ all_rows # <<>>
    /\ all_rows[1] = Record(ScenarioAnchor(1))

C5_MixedPageAppendsNew ==
    [][ /\ LET new == {i \in 1..Len(rows) : rows[i].url \notin UrlsOf(all_rows)} IN
           (pc = "filter" /\ new # {} /\ new # 1..Len(rows)) =>
              /\ pc' = "sleep"
              /\ Len(all_rows') = Len(all_rows) + Cardinality(new)
              /\ SubSeq(all_rows', 1, Len(all_rows)) = all_rows
              /\ \A k \in 1..Cardinality(new) : all_rows'[Len(all_rows) + k] = rows[Kth(new, k)]
        /\ (pc = "sleep" => pc' = "loop")
        /\ (pc = "loop" /\ page_num < max_pages) => (pc' = "fetch" /\ page_num' = page_num + 1)
        /\ (pc' \in {"save", "done"} => Len(all_rows') = Cardinality(page_urls'))
        /\ (ScenarioAProcessed /\ pc \in {"sleep", "loop"}) => Len(all_rows) = 13
        /\ (ScenarioAProcessed /\ pc = "loop" /\ max_pages >= 3)
              => (pc' = "fetch" /\ page_num' = 3)
      ]_vars

\* Scenario A: page 3 is being fetched with the 13 rows of pages 1 and 2
C5_Witness ==
    /\ pc = "fetch"
    /\ page_num = 3
    /\ html = HtmlText(FALSE, ScenarioPage2)
    /\ Len(all_rows) = 13
    /\ all_rows[1] = Record(ScenarioAnchor(1))
    /\ all_rows[10] = Record(ScenarioAnchor(10))
    /\ all_rows[11] = Record(ScenarioAnchor(11))
    /\ all_rows[13] = Record(ScenarioAnchor(13))

(***************************************************************************)
(* C6: when the process has ended, the output file exists if and only if    *)
(* the accumulated list is not empty; it was written at most once, with one *)
(* row per accumulated record in order; a run that reached save_csv with   *)
(* an empty list printed the "no rows" notice.                              *)
(***************************************************************************)
C6_FileIffRows ==
    pc \in {"done", "crashed"} =>
        /\ file.exists <=> all_rows # <<>>
        /\ writes = (IF all_rows = <<>> THEN 0 ELSE 1)
        /\ (file.exists => file.header = Fieldnames /\ file.body = CsvRows(all_rows))
        /\ (pc = "done" /\ all_rows = <<>> => Count("no_rows_to_save") = 1)

(***************************************************************************)
(* C7: every record extracted or accumulated has a non-empty url with a     *)
(* scheme; the records of a page are as many as the distinct urls its       *)
(* listing anchors resolve to, so an anchor without href, or with an empty  *)
(* one, gives no record; and each record's url is the resolution of the     *)
(* href of an anchor of the page against https://www.olx.in.                *)
(***************************************************************************)
\* https://www.olx.in
BaseOrigin == <<"https", ":", "/", "/", "www.olx.in">>
HasPrefix(u, p) == Len(u) >= Len(p) /\ SubSeq(u, 1, Len(p)) = p
\* the href names neither a scheme nor a host
HasNoOrigin(h) == UrlSplit(h.raw, <<>>).scheme = <<>> /\ UrlSplit(h.raw, <<>>).netloc = <<>>

C7_UrlAbsolute ==
    /\ \A i \in 1..Len(rows) : IsAbsolute(rows[i].url) /\ IsNonEmptyUrl(rows[i].url)
    /\ \A i \in 1..Len(all_rows) : IsAbsolute(all_rows[i].url) /\ IsNonEmptyUrl(all_rows[i].url)
    /\ (file.exists =>
          \A i \in 1..Len(file.body) : IsAbsolute(file.body[i].url) /\ IsNonEmptyUrl(file.body[i].url))
    /\ pc = "filter" =>
          /\ \A i \in 1..Len(rows) :
               \E k \in 1..Len(html.anchors) :
                  /\ html.anchors[k].href.present
                  /\ html.anchors[k].href # EmptyHref
                  /\ rows[i].title = (IF OwnText(html.anchors[k]) = <<>> THEN NoneText
                                      ELSE SomeText(OwnText(html.anchors[k])))
                  /\ (HasNoOrigin(html.anchors[k].href) => HasPrefix(rows[i].url, BaseOrigin))
          /\ \A k \in 1..Len(html.anchors) :
               (~html.anchors[k].href.present \/ html.anchors[k].href = EmptyHref)
                  => \A i \in 1..Len(rows) : rows[i].title # SomeText(OwnText(html.anchors[k]))

\* a page with an anchor that has an empty href and a listing with a
\* relative href: one record, for the listing
C7_Witness ==
    /\ pc = "filter"
    /\ \E k \in 1..Len(html.anchors) : html.anchors[k] = AnchorEmptyHref
    /\ \E k \in 1..Len(html.anchors) : html.anchors[k] = AnchorItem3
    /\ Len(rows) = 1
    /\ rows[1].url = BaseOrigin \o <<"/", "item", "/", "3">>

(***************************************************************************)
(* C8: the price guess of a listing is the leftmost, longest substring of   *)
(* its context text made of the rupee sign, at most one whitespace          *)
(* character, and one or more characters that are each a digit or a comma;  *)
(* it is absent exactly when the context text has no such substring.        *)
(***************************************************************************)
\* rupee sign, optional whitespace character, then digits and commas
IsPriceShape(str) ==
    /\ Len(str) >= 2
    /\ str[1] = "Rs"
    /\ \E k \in {1, 2} :
         /\ (k = 2 => str[2] \in Whitespace)
         /\ Len(str) > k
         /\ \A j \in (k + 1)..Len(str) : str[j] \in DigitOrComma

\* rupee sign, optional space, then groups of digits separated by single
\* commas: the shape Scenario D's "Rs 1,200" has
IsGroupedPriceShape(str) ==
    /\ Len(str) >= 2
    /\ str[1] = "Rs"
    /\ \E k \in {1, 2} :
         /\ (k = 2 => str[2] = " ")
         /\ Len(str) > k
         /\ \A j \in (k + 1)..Len(str) : str[j] \in DigitOrComma
         /\ str[k + 1] \in Digits
         /\ str[Len(str)] \in Digits
         /\ \A j \in (k + 1)..(Len(str) - 1) : ~(str[j] = "," /\ str[j + 1] = ",")

\* the positions of text where a substring of either shape starts
PriceShapeStarts(text) ==
    {i \in 1..Len(text) : \E e \in i..Len(text) : IsPriceShape(SubSeq(text, i, e))}
GroupedPriceShapeStarts(text) ==
    {i \in 1..Len(text) : \E e \in i..Len(text) : IsGroupedPriceShape(SubSeq(text, i, e))}

C8_PriceLeftmostLongest ==
    (pc = "filter" /\ Len(rows) = 1) =>
        LET text == ParentText(html.anchors[1])
            price == rows[1].price_guess
            starts == PriceShapeStarts(text)
        IN /\ price.some <=> starts # {}
           /\ price.some =>
                LET i == CHOOSE k \in starts : \A j \in starts : k <= j
                    ends == {e \in i..Len(text) : IsPriceShape(SubSeq(text, i, e))}
                    last == CHOOSE e \in ends : \A d \in ends : d <= e
                IN price.v = SubSeq(text, i, last)

\* the anchor holds a sign and the text after it is sign, no-break space,
\* comma: the context is sign, blank, sign, no-break space, comma; the
\* first sign matches nothing, the guess starts at the second one, takes
\* the no-break space and has no digit
C8_Witness ==
    /\ pc = "filter"
    /\ Len(rows) = 1
    /\ html.anchors[1].own = <<"Rs">>
    /\ html.anchors[1].after = <<"Rs", "U+00A0", ",">>
    /\ ParentText(html.anchors[1]) = <<"Rs", " ", "Rs", "U+00A0", ",">>
    /\ rows[1].price_guess = SomeText(<<"Rs", "U+00A0", ",">>)

\* the claim as first stated: the guess has the grouped shape, is the
\* leftmost substring of that shape, and is absent when there is none
C8_Original ==
    (pc = "filter" /\ Len(rows) = 1) =>
        LET text == ParentText(html.anchors[1])
            price == rows[1].price_guess
            starts == GroupedPriceShapeStarts(text)
        IN /\ price.some <=> starts # {}
           /\ price.some =>
                /\ IsGroupedPriceShape(price.v)
                /\ LET i == CHOOSE k \in starts : \A j \in starts : k <= j
                   IN Len(text) >= i + Len(price.v) - 1
                      /\ price.v = SubSeq(text, i, i + Len(price.v) - 1)

(***************************************************************************)
(* C9: a sleep comes right after a page's new rows were accumulated, once   *)
(* per such page, the last page of the budget included; it is followed by   *)
(* the fetch of the next page when page_num < max_pages and by the end of   *)
(* the loop otherwise; so a run with k fetches sleeps at most k times, and  *)
(* exactly k times when all k pages gave new rows.                          *)
(***************************************************************************)
C9_SleepAfterEveryAcceptedPage ==
    /\ \A i \in EventsOf(events, "sleep") :
         /\ i > 1
         /\ events[i - 1] = Ev("extend", events[i].n)
         /\ i < Len(events) =>
              IF events[i].n < max_pages
              THEN events[i + 1] = Ev("fetching", events[i].n + 1)
              ELSE events[i + 1].ev = "saved"
    /\ \A i \in EventsOf(events, "extend") :
         i < Len(events) => events[i + 1] = Ev("sleep", events[i].n)
    /\ Count("sleep") <= Count("fetching")
    /\ (Returned /\ Count("extend") = Count("fetching")) => Count("sleep") = Count("fetching")

\* the run fetched max_pages pages, all with new rows, and slept after the
\* last one too
C9_Witness ==
    /\ pc = "done"
    /\ max_pages >= 2
    /\ Count("fetching") = max_pages
    /\ Count("sleep") = max_pages
    /\ events[Len(events) - 2] = Ev("sleep", max_pages)

\* the claim as first stated: every sleep is followed by a fetch, and k
\* fetches come with at most k - 1 sleeps
C9_Original ==
    pc = "done" =>
        /\ \A i \in EventsOf(events, "sleep") :
             \E j \in EventsOf(events, "fetching") : j > i
        /\ (Count("fetching") >= 1 => Count("sleep") <= Count("fetching") - 1)

(***************************************************************************)
(* C10: a step in which the fetch returns status 200 with an empty body     *)
(* prints "No HTML fetched", leaves the accumulated list as it is and ends  *)
(* the loop, without a call of extract_listings; after the loop has ended   *)
(* no page is fetched and the list is what is returned and saved.           *)
(***************************************************************************)
C10_EmptyBodyStops ==
    [][ /\ (pc = "fetch" /\ html'.ok /\ html'.empty) =>
              /\ all_rows' = all_rows
              /\ rows' = rows
              /\ page_num' = page_num
              /\ pc' = "save"
              /\ events' = events \o <<Ev("fetching", page_num), Ev("no_html", page_num)>>
        /\ (pc' = "extract" => ~html'.empty)
        /\ ReturnedIsFinal
      ]_vars

\* page 2 or later came back 200 and empty, with budget left
C10_Witness ==
    /\ pc = "done"
    /\ html.ok
    /\ html.empty
    /\ Count("no_html") = 1
    /\ Count("extract") = page_num - 1
    /\ page_num >= 2
    /\ page_num < max_pages
    /\ all_rows # <<>>

====
